---- MODULE Spec2Model ----
(***************************************************************************)
(* Model of the NSE stock analysis tool: main.py reads the three scan      *)
(* parameters and the uploaded batch, utils.process_stock_data fetches one *)
(* frame of daily bars for the whole batch (utils.fetch_stock_data) and    *)
(* then scans, row by row, for the first day whose High reaches the target *)
(* price.                                                                  *)
(*                                                                         *)
(* Dates are day numbers.  Floats are exact rationals [nan, num, den] with *)
(* den > 0; NaN is the pandas missing value.  An optional Python value is  *)
(* <<>> (None) or <<v>>.                                                   *)
(***************************************************************************)
EXTENDS Integers, Sequences, FiniteSets, TLC

VARIABLES pc, df, target_return, min_days, max_days,
          tickers, start_date, end_date, stock_data,
          i, locals, results, out

vars == <<pc, df, target_return, min_days, max_days,
          tickers, start_date, end_date, stock_data,
          i, locals, results, out>>

-----------------------------------------------------------------------------
(* Bounds and input sets *)

MaxRows == 2
MaxDays == 3

Symbols == {"A", "B"}
ObsDates == {0, 2}
MinDaysInputs == {1, 2}
TargetReturnInputs == {4, 6}          \* in half percents: 2.0 % and 3.0 %
PathIds == {"Rally", "Flat", "Spike"}

-----------------------------------------------------------------------------
(* Float arithmetic *)

F(n, d) == [nan |-> FALSE, num |-> n, den |-> d]
NaN == [nan |-> TRUE, num |-> 0, den |-> 1]

FAdd(a, b) == IF a.nan \/ b.nan THEN NaN
              ELSE F(a.num * b.den + b.num * a.den, a.den * b.den)
FSub(a, b) == IF a.nan \/ b.nan THEN NaN
              ELSE F(a.num * b.den - b.num * a.den, a.den * b.den)
FMul(a, b) == IF a.nan \/ b.nan THEN NaN
              ELSE F(a.num * b.num, a.den * b.den)
FDiv(a, b) == IF a.nan \/ b.nan \/ b.num = 0 THEN NaN
              ELSE IF b.num > 0 THEN F(a.num * b.den, a.den * b.num)
              ELSE F(0 - a.num * b.den, a.den * (0 - b.num))
\* a >= b; any comparison with NaN is False
FGeq(a, b) == ~a.nan /\ ~b.nan /\ a.num * b.den >= b.num * a.den
FEq(a, b) == ~a.nan /\ ~b.nan /\ a.num * b.den = b.num * a.den

None == <<>>
Some(v) == <<v>>
\* pandas notna on a float cell: neither None nor NaN
notna(o) == o # None /\ ~o[1].nan
\* pandas notna on the days_taken cell (None or a day count)
notnaDays(o) == o # None

SetMin(S) == CHOOSE x \in S : \A y \in S : x <= y
SetMax(S) == CHOOSE x \in S : \A y \in S : x >= y

-----------------------------------------------------------------------------
(* The price provider (yfinance) *)

Ticker(sym) == sym \o ".NS"

\* Daily bar of a price path on a date, prices in tenths of a rupee.
PathBar(p, d) ==
    CASE p = "Rally" ->
           (CASE d = 0 -> [Close |-> F(1000, 1), High |-> F(1010, 1)]
              [] d = 1 -> [Close |-> F(1015, 1), High |-> F(1025, 1)]
              [] d = 2 -> [Close |-> F(1030, 1), High |-> F(1035, 1)]
              [] OTHER -> [Close |-> F(985, 1),  High |-> F(990, 1)])
      [] p = "Flat" ->
           (CASE d = 0 -> [Close |-> F(1000, 1), High |-> F(1010, 1)]
              [] d = 1 -> [Close |-> F(1010, 1), High |-> F(1020, 1)]
              [] d = 2 -> [Close |-> F(1020, 1), High |-> F(1029, 1)]
              [] OTHER -> [Close |-> F(1005, 1), High |-> F(1015, 1)])
      [] OTHER ->
           (CASE d = 0 -> [Close |-> F(1000, 1), High |-> F(1040, 1)]
              [] d = 1 -> [Close |-> F(1035, 1), High |-> F(1080, 1)]
              [] d = 2 -> [Close |-> F(1000, 1), High |-> F(1025, 1)]
              [] d = 3 -> [Close |-> F(1005, 1), High |-> F(1050, 1)]
              [] OTHER -> [Close |-> F(1000, 1), High |-> F(1010, 1)])

NaNBar == [Close |-> NaN, High |-> NaN]

\* Dates the provider may cover for a symbol inside the requested span, and
\* the price histories it may report.  Coverage is partial at the provider's
\* discretion: "A" may come back with any subset of the span, "B" comes
\* back whole or (see FetchStockData) not at all.
ProviderCoverage(sym, span) == IF sym = "A" THEN SUBSET span ELSE {span}
ProviderPaths(sym) == IF sym = "A" THEN PathIds ELSE {"Spike"}

\* The frame yf.download(..., group_by='ticker') returns: one column group
\* per delivered ticker over one shared date index; a date on which a
\* ticker has no bar but another one has holds NaN.
Frame(present, cov, path) ==
    LET index == UNION {cov[s] : s \in present}
    IN [cols  |-> {Ticker(s) : s \in present},
        index |-> index,
        cell  |-> [t \in {Ticker(s) : s \in present} |->
                     LET s == CHOOSE x \in present : Ticker(x) = t
                     IN [d \in index |->
                           IF d \in cov[s] THEN PathBar(path[s], d)
                           ELSE NaNBar]]]

NoFrame == [cols |-> {}, index |-> {}, cell |-> [t \in {} |-> NaNBar]]

-----------------------------------------------------------------------------
(* fetch_stock_data *)

FetchStart(start_dates) == SetMin(start_dates)
FetchEnd(start_dates, maxd) == FetchStart(start_dates) + maxd
\* yfinance delivers the bars dated start <= d < end
FetchSpan(start_dates, maxd) ==
    {d \in FetchStart(start_dates) .. FetchEnd(start_dates, maxd) :
        d < FetchEnd(start_dates, maxd)}

-----------------------------------------------------------------------------
(* process_stock_data: the body of the per-row loop *)

NoLocals == [return_pct |-> None, days_taken |-> None,
             start_price |-> None, target_price |-> None]

\* stock_data[f"{symbol}.NS"] or data.loc[start_date, 'Close'] raises KeyError
Raises(symbol, sdate, sd) ==
    \/ Ticker(symbol) \notin sd.cols
    \/ sdate \notin sd.index

\* Variant: the window opens min_days after the entry date.
WindowFromMinDays(sd, sdate, mind, maxd) ==
    {d \in sd.index : sdate + mind <= d /\ d <= sdate + maxd}

\* Variant: the window ends at the first calendar day without a row.
WindowStopsAtGap(sd, sdate, mind, maxd) ==
    {d \in sd.index : /\ sdate <= d /\ d <= sdate + maxd
                      /\ \A e \in sdate..d : e \in sd.index}

\* labels of data.loc[start_date : start_date + Timedelta(days=max_days)];
\* min_days takes no part in the slice
Window(sd, sdate, mind, maxd) ==
    {d \in sd.index : sdate <= d /\ d <= sdate + maxd}

\* target_price = start_price * (1 + target_return / 100)
TargetPrice(start_price, tr) ==
    FMul(start_price, FAdd(F(1, 1), FDiv(tr, F(100, 1))))

\* Variant: the last label holding True.
IdxMaxLast(hit) ==
    IF \E d \in DOMAIN hit : hit[d]
    THEN SetMax({d \in DOMAIN hit : hit[d]})
    ELSE SetMin(DOMAIN hit)

\* (high_prices >= target_price).idxmax(): the first label holding True,
\* the first label of the series when none does
IdxMax(hit) ==
    IF \E d \in DOMAIN hit : hit[d]
    THEN SetMin({d \in DOMAIN hit : hit[d]})
    ELSE SetMin(DOMAIN hit)

\* Variant: the gain is taken relative to the high.
ReturnPctOverHigh(high, start_price) ==
    FMul(FDiv(FSub(high, start_price), high), F(100, 1))

\* (high - start_price) / start_price * 100
ReturnPct(high, start_price) ==
    FMul(FDiv(FSub(high, start_price), start_price), F(100, 1))

\* the assignments of the branch in which the hit day reaches the target
HitBranch(l, hit_day, sdate, high) ==
    [l EXCEPT !.days_taken = Some(hit_day - sdate),
              !.return_pct = Some(ReturnPct(high, l.start_price[1]))]

\* Variant: the else branch leaves target_price as computed.
MissBranchKeepsTarget(l) ==
    [l EXCEPT !.return_pct = None, !.days_taken = None]

\* else: return_pct, days_taken, target_price = None, None, None
MissBranch(l) ==
    [l EXCEPT !.return_pct = None, !.days_taken = None, !.target_price = None]

\* Variant: the handler resets only the outcome of the scan.
ExceptBranchKeepsPrices(l) ==
    [l EXCEPT !.return_pct = None, !.days_taken = None]

\* except Exception: all four locals are reset
ExceptBranch(l) ==
    [l EXCEPT !.return_pct = None, !.days_taken = None,
              !.start_price = None, !.target_price = None]

\* One pass of the try/except of the loop, from the locals `prev` the
\* preceding pass left behind to the locals the pass appends.
RowBody(symbol, sdate, sd, tr, mind, maxd, prev) ==
    IF Raises(symbol, sdate, sd) THEN ExceptBranch(prev)
    ELSE
      LET data == sd.cell[Ticker(symbol)]
          start_price == data[sdate].Close
          W == Window(sd, sdate, mind, maxd)
          high_prices == [d \in W |-> data[d].High]
          target_price == TargetPrice(start_price, tr)
          l1 == [prev EXCEPT !.start_price = Some(start_price),
                             !.target_price = Some(target_price)]
          hit_day == IdxMax([d \in W |-> FGeq(high_prices[d], target_price)])
      IN IF W = {} THEN ExceptBranch(l1)   \* idxmax of an empty series raises
         ELSE IF FGeq(high_prices[hit_day], target_price)
         THEN HitBranch(l1, hit_day, sdate, high_prices[hit_day])
         ELSE MissBranch(l1)

\* results.append([return_pct, days_taken, start_price, target_price])
ResultRow(l) == <<l.return_pct, l.days_taken, l.start_price, l.target_price>>

\* Variant: target_met is read off the entry price column.
OutRowMetFromEntry(obs, r) ==
    [symbol |-> obs.symbol, date |-> obs.date,
     return_pct |-> r[1], days_taken |-> r[2],
     entry_price |-> r[3], target_price |-> r[4],
     target_met |-> notna(r[3])]

\* df[['return_pct','days_taken','entry_price','target_price']] = results
\* df['target_met'] = df['return_pct'].notna()
OutRow(obs, r) ==
    [symbol |-> obs.symbol, date |-> obs.date,
     return_pct |-> r[1], days_taken |-> r[2],
     entry_price |-> r[3], target_price |-> r[4],
     target_met |-> notna(r[1])]

-----------------------------------------------------------------------------
(* State machine *)

Observations == [symbol : Symbols, date : ObsDates]
Batches == UNION {[1..n -> Observations] : n \in 1..MaxRows}

\* main.py: the three number inputs and the uploaded batch
Init ==
    /\ pc = "fetch"
    /\ df \in Batches
    /\ target_return \in {F(k, 2) : k \in TargetReturnInputs}
    /\ min_days \in MinDaysInputs
    /\ max_days \in {m \in 1..MaxDays : m >= min_days}
    /\ tickers = {}
    /\ start_date = 0
    /\ end_date = 0
    /\ stock_data = NoFrame
    /\ i = 1
    /\ locals = NoLocals
    /\ results = <<>>
    /\ out = <<>>

\* unique symbols, fetch_stock_data and the provider's answer
FetchStockData ==
    /\ pc = "fetch"
    /\ LET unique_symbols == {df[k].symbol : k \in 1..Len(df)}
           start_dates == {df[k].date : k \in 1..Len(df)}
           span == FetchSpan(start_dates, max_days)
       IN /\ tickers' = {Ticker(s) : s \in unique_symbols}
          /\ start_date' = FetchStart(start_dates)
          /\ end_date' = FetchEnd(start_dates, max_days)
          /\ \E present \in SUBSET unique_symbols :
               \E cov \in [present -> SUBSET span] :
                 \E path \in [present -> PathIds] :
                   /\ \A s \in present : /\ cov[s] \in ProviderCoverage(s, span)
                                         /\ path[s] \in ProviderPaths(s)
                   /\ stock_data' = Frame(present, cov, path)
    /\ pc' = "loop"
    /\ UNCHANGED <<df, target_return, min_days, max_days, i, locals, results, out>>

\* Variant: a row whose lookup raises is skipped, nothing is appended.
LoopBodySkipsFailedRow ==
    /\ pc = "loop"
    /\ i <= Len(df)
    /\ locals' = RowBody(df[i].symbol, df[i].date, stock_data,
                         target_return, min_days, max_days, locals)
    /\ results' = IF Raises(df[i].symbol, df[i].date, stock_data)
                  THEN results
                  ELSE Append(results, ResultRow(locals'))
    /\ i' = i + 1
    /\ UNCHANGED <<pc, df, target_return, min_days, max_days,
                   tickers, start_date, end_date, stock_data, out>>

\* one iteration of: for symbol, start_date in zip(df['symbol'], df['date'])
LoopBody ==
    /\ pc = "loop"
    /\ i <= Len(df)
    /\ locals' = RowBody(df[i].symbol, df[i].date, stock_data,
                         target_return, min_days, max_days, locals)
    /\ results' = Append(results, ResultRow(locals'))
    /\ i' = i + 1
    /\ UNCHANGED <<pc, df, target_return, min_days, max_days,
                   tickers, start_date, end_date, stock_data, out>>

\* the loop is exhausted: the result columns are assigned and df returned
AssignColumns ==
    /\ pc = "loop"
    /\ i > Len(df)
    /\ out' = [k \in 1..Len(df) |-> OutRow(df[k], results[k])]
    /\ pc' = "done"
    /\ UNCHANGED <<df, target_return, min_days, max_days,
                   tickers, start_date, end_date, stock_data, i, locals, results>>

Next == FetchStockData \/ LoopBody \/ AssignColumns

Spec == Init /\ [][Next]_vars

-----------------------------------------------------------------------------
(* Vocabulary of the properties, stated on the fetched frame itself *)

Fetched == pc # "fetch"
Done == pc = "done"
Rows == 1..Len(out)

\* the symbol's series holds a bar on date d
BarAt(sym, d) ==
    /\ Ticker(sym) \in stock_data.cols
    /\ d \in stock_data.index
    /\ ~stock_data.cell[Ticker(sym)][d].Close.nan
CloseAt(sym, d) == stock_data.cell[Ticker(sym)][d].Close
HighAt(sym, d) == stock_data.cell[Ticker(sym)][d].High

InWindow(obs, d) == obs.date <= d /\ d <= obs.date + max_days

\* high >= close * (1 + tr / 100), by cross multiplication
Reaches(high, close, tr) ==
    high.num * close.den * 100 * tr.den
        >= close.num * (100 * tr.den + tr.num) * high.den

\* date d is a bar of the observation's window whose high reaches the target
Qualifies(obs, d, tr) ==
    /\ InWindow(obs, d)
    /\ BarAt(obs.symbol, d)
    /\ Reaches(HighAt(obs.symbol, d), CloseAt(obs.symbol, obs.date), tr)

QualifyingDates(obs, tr) ==
    {d \in stock_data.index : Qualifies(obs, d, tr)}

\* v = close * (1 + tr / 100)
IsTargetOf(v, close, tr) ==
    /\ ~v.nan
    /\ v.num * close.den * 100 * tr.den
         = close.num * (100 * tr.den + tr.num) * v.den

\* v = (high - close) / close * 100
IsReturnOf(v, high, close) ==
    /\ ~v.nan
    /\ v.num * high.den * close.num
         = (high.num * close.den - close.num * high.den) * 100 * v.den

AllAbsent(r) ==
    /\ ~notna(r.entry_price) /\ ~notna(r.target_price)
    /\ ~notnaDays(r.days_taken) /\ ~notna(r.return_pct)

\* the row a lone pass over the observation yields under other parameters
ScanAlone(obs, tr, mind) ==
    OutRow(obs, ResultRow(RowBody(obs.symbol, obs.date, stock_data,
                                  tr, mind, max_days, NoLocals)))

-----------------------------------------------------------------------------
(* C1 *)

\* C1: the span requested from the provider runs from the earliest
\* observation date to the latest observation date + max_days, so every
\* observation's window [entry_date, entry_date + max_days] lies inside it.
C1_SpanCoversEveryWindow ==
    Fetched =>
      LET dates == {df[k].date : k \in 1..Len(df)}
      IN /\ start_date = SetMin(dates)
         /\ end_date = SetMax(dates) + max_days
         /\ \A k \in 1..Len(df) :
              start_date <= df[k].date /\ df[k].date + max_days <= end_date

-----------------------------------------------------------------------------
(* C2 *)

\* the entry resolves to a close but no bar of the window reaches the target
ResolvedUnmet(obs) ==
    BarAt(obs.symbol, obs.date) /\ QualifyingDates(obs, target_return) = {}

-----------------------------------------------------------------------------
(* C3 *)

\* C3: an observation whose symbol has no series, or whose series has no bar
\* at the entry date, has target_met false and every optional field absent,
\* whatever the preceding rows produced.
C3_UnresolvedAllAbsent ==
    \A k \in Rows :
      ~BarAt(df[k].symbol, df[k].date) =>
        out[k].target_met = FALSE /\ AllAbsent(out[k])

\* an unresolved row directly after a row that was met
C3_Witness ==
    /\ Done
    /\ \E k \in Rows :
         /\ k > 1
         /\ out[k - 1].target_met
         /\ ~BarAt(df[k].symbol, df[k].date)
         /\ AllAbsent(out[k])

-----------------------------------------------------------------------------
(* C4 *)

\* C4: for a met row the hit date (entry date + days_taken) lies in the
\* window, its high reaches the target, and no earlier bar of the window
\* does.
C4_EarliestHit ==
    \A k \in Rows :
      out[k].target_met =>
        LET hit == df[k].date + out[k].days_taken[1]
        IN /\ Qualifies(df[k], hit, target_return)
           /\ \A d \in QualifyingDates(df[k], target_return) : hit <= d

\* a met row with a later bar in the window whose high is higher still
C4_Witness ==
    /\ Done
    /\ \E k \in Rows :
         /\ out[k].target_met
         /\ \E d \in QualifyingDates(df[k], target_return) :
              LET hit == df[k].date + out[k].days_taken[1]
              IN /\ d > hit
                 /\ ~FGeq(HighAt(df[k].symbol, hit), HighAt(df[k].symbol, d))

-----------------------------------------------------------------------------
(* C5 *)

\* C5: one result row per observation, in input order, symbol and date
\* unchanged; a failing row is appended like any other, and every row is the
\* row a lone pass over its observation yields.
C5_OneRowPerObservation ==
    /\ pc = "loop" => Len(results) = i - 1
    /\ Done => Len(out) = Len(df)
    /\ \A k \in Rows :
         /\ out[k].symbol = df[k].symbol
         /\ out[k].date = df[k].date
         /\ out[k] = ScanAlone(df[k], target_return, min_days)

\* a failing first row followed by a row that is met
C5_Witness ==
    /\ Done
    /\ Len(out) >= 2
    /\ ~BarAt(df[1].symbol, df[1].date)
    /\ AllAbsent(out[1])
    /\ out[2].target_met

-----------------------------------------------------------------------------
(* C6 *)

\* C6: target_met holds exactly when days_taken and return_pct are both
\* present (and then a hit date exists in the window); neither is present on
\* an unmet row, and a met row carries entry_price and target_price too.
C6_ScanResultInvariant ==
    \A k \in Rows :
      /\ out[k].target_met
           <=> (notnaDays(out[k].days_taken) /\ notna(out[k].return_pct))
      /\ ~out[k].target_met
           => (~notnaDays(out[k].days_taken) /\ ~notna(out[k].return_pct))
      /\ out[k].target_met
           => /\ notna(out[k].entry_price)
              /\ notna(out[k].target_price)
              /\ QualifyingDates(df[k], target_return) # {}

\* a batch holding a met row and a resolved row that is not met
C6_Witness ==
    /\ Done
    /\ \E k \in Rows : out[k].target_met
    /\ \E k \in Rows : ~out[k].target_met /\ notna(out[k].entry_price)

-----------------------------------------------------------------------------
(* C7 *)

\* C7: on a met row days_taken is the number of calendar days from the entry
\* date to the earliest qualifying date, and return_pct is
\* (high at that date - entry close) / entry close * 100.
C7_DaysAndReturn ==
    \A k \in Rows :
      out[k].target_met =>
        LET hit == SetMin(QualifyingDates(df[k], target_return))
        IN /\ out[k].days_taken = Some(hit - df[k].date)
           /\ IsReturnOf(out[k].return_pct[1],
                         HighAt(df[k].symbol, hit),
                         CloseAt(df[k].symbol, df[k].date))

\* close 100, target 3 %, high 103.5 two calendar days on with the day in
\* between missing from the frame: days_taken = 2, return_pct = 3.5
C7_Witness ==
    /\ Done
    /\ \E k \in Rows :
         /\ out[k].target_met
         /\ FEq(target_return, F(3, 1))
         /\ FEq(out[k].entry_price[1], F(1000, 1))
         /\ (df[k].date + 1) \notin stock_data.index
         /\ out[k].days_taken = Some(2)
         /\ FEq(out[k].return_pct[1], F(35, 10))

-----------------------------------------------------------------------------
(* C8 *)

\* C8: for target returns p1 < p2, a row met under p2 is met under p1, and
\* its hit date under p1 is not later than under p2.
C8_MonotoneInTarget ==
    \A k \in Rows : \A p \in TargetReturnInputs :
      LET alt == ScanAlone(df[k], F(p, 2), min_days)
          lo == IF FGeq(target_return, F(p, 2)) THEN alt ELSE out[k]
          hi == IF FGeq(target_return, F(p, 2)) THEN out[k] ELSE alt
      IN hi.target_met =>
           /\ lo.target_met
           /\ lo.days_taken[1] <= hi.days_taken[1]

\* a row met at 2 % that the run at 3 % leaves unmet
C8_Witness ==
    /\ Done
    /\ FEq(target_return, F(3, 1))
    /\ \E k \in Rows :
         /\ ~out[k].target_met
         /\ ScanAlone(df[k], F(2, 1), min_days).target_met

-----------------------------------------------------------------------------
(* C9 *)

\* the entry has a bar, and the frame misses a date of the window
WindowHasGap(obs) ==
    /\ BarAt(obs.symbol, obs.date)
    /\ \E d \in obs.date .. obs.date + max_days : ~BarAt(obs.symbol, d)

\* C9: with a bar at the entry date and dates of the window missing, the row
\* keeps its entry_price and is met exactly when one of the bars that exist
\* in the window reaches the target.
C9_ScanOverExistingBars ==
    \A k \in Rows :
      WindowHasGap(df[k]) =>
        /\ notna(out[k].entry_price)
        /\ out[k].target_met <=> QualifyingDates(df[k], target_return) # {}

\* a row met on a bar that lies behind a missing date of its window
C9_Witness ==
    /\ Done
    /\ \E k \in Rows :
         /\ WindowHasGap(df[k])
         /\ out[k].target_met
         /\ \E d \in df[k].date .. df[k].date + out[k].days_taken[1] :
              ~BarAt(df[k].symbol, d)

-----------------------------------------------------------------------------
(* C10 *)

\* C10: the rows do not depend on min_days, and a high on the entry day that
\* reaches the target gives target_met with days_taken = 0.
C10_MinDaysUnused ==
    \A k \in Rows :
      /\ \A m \in MinDaysInputs : out[k] = ScanAlone(df[k], target_return, m)
      /\ Qualifies(df[k], df[k].date, target_return)
           => out[k].target_met /\ out[k].days_taken = Some(0)

\* an entry-day hit under min_days = 2
C10_Witness ==
    /\ Done
    /\ min_days = 2
    /\ \E k \in Rows :
         /\ Qualifies(df[k], df[k].date, target_return)
         /\ out[k].days_taken = Some(0)

====
